---- MODULE Spec2Model ----
(***************************************************************************)
(* Streaming chat gateway of gsnake1102_backend.                           *)
(*                                                                         *)
(* src/src/routes/chat.routes.ts registers two entry points:               *)
(*   POST /        (preHandler authenticate, SSE stream or JSON reply)     *)
(*   GET  /stream  (websocket, token in the query string)                  *)
(* A step of the model is the code that runs between two awaits of a       *)
(* handler; the handlers of different requests interleave at the awaits.   *)
(***************************************************************************)
EXTENDS Integers, Sequences, FiniteSets, TLC

\* ------------------------------------------------------------------ bounds
MaxRelays == 1      \* handler invocations (sessions) started in one run
MaxFrags == 2       \* chunks one upstream generator yields before it ends
MaxConc == 2        \* messages handled on one socket in the concurrent runs
ConcFrags == 1      \* chunks per generator in the concurrent runs
FairFrags == 1      \* chunks per generator in the runs under fair scheduling
MaxCalls == 2       \* calls of AuthService.register in one run

Conns == {"c1"}

\* -------------------------------------------------------------- input values
NoUser == "none"

\* A credential as the entry point sees it: absent, rejected by jwt.verify,
\* or verified with a payload whose userId may be missing.
Credentials ==
    { [present |-> FALSE, verifies |-> FALSE, userId |-> NoUser],
      [present |-> TRUE,  verifies |-> FALSE, userId |-> "u1"],
      [present |-> TRUE,  verifies |-> TRUE,  userId |-> NoUser],
      [present |-> TRUE,  verifies |-> TRUE,  userId |-> "u1"] }

\* Conversations: ordered message lists.
Conversations == { <<>>, <<"hi", "yo">> }

\* A request body (POST) or an inbound socket message.
\*   json        the text parses as JSON (always true for a POST body that
\*               reached the handler)
\*   shapeOk     the object has the shape of chatRequestSchema
\*   hasMessages the object carries a messages field
\*   stream      the stream flag of the body
\*   claimedUser a userId field the client put in the payload
Bodies ==
    { [json |-> j, shapeOk |-> s, hasMessages |-> h, messages |-> m,
       stream |-> st, claimedUser |-> cu] :
        j \in BOOLEAN, s \in BOOLEAN, h \in BOOLEAN, m \in Conversations,
        st \in BOOLEAN, cu \in {NoUser, "u2"} }


\* Bodies that reach the POST handler: one conversation that validates, and
\* the ways to fail validation (malformed, no messages field, empty list).
PostBodies ==
    { b \in Bodies : /\ b.json /\ b.claimedUser = NoUser
                     /\ (~b.hasMessages => b.messages = <<>>)
                     /\ (~b.shapeOk => (b.messages = <<>> /\ ~b.hasMessages))
                     /\ (b.messages = <<>> /\ b.shapeOk /\ ~b.hasMessages => b.stream) }

SocketMessages ==
    { b \in Bodies : /\ ~b.stream /\ b.shapeOk = b.json
                     /\ (~b.json => (~b.hasMessages /\ b.claimedUser = NoUser))
                     /\ (~b.hasMessages => b.messages = <<>>)
                     /\ (b.messages = <<>> <=> b.claimedUser = NoUser) }

\* Chunks of the upstream stream.  choices[0].delta.content is either
\* missing (undefined) or text, a sequence of characters; the i-th chunk of
\* a stream carries a text of its own, so that order, loss and duplication
\* show in what is written.
Undefined == <<"undefined">>

Text(i) == [j \in 1..i |-> i]

ChunksAt(i) ==
    { [hasContent |-> FALSE, content |-> Undefined],
      [hasContent |-> TRUE,  content |-> Text(i)] }

ChunkSeqs ==
    UNION { { f \in [1..n -> UNION { ChunksAt(i) : i \in 1..n }] :
                \A i \in 1..n : f[i] \in ChunksAt(i) } : n \in 0..MaxFrags }

\* What the upstream service throws.
UpstreamErrors == {"AuthorizationError", "Error"}

\* Email addresses a caller registers with.
Emails == {"a@x", "b@x"}

\* The user that is stored before the first call (id 0), if any.
SeedUsers == { {}, {[id |-> 0, email |-> "a@x"]} }

\* ------------------------------------------------------------------- state
VARIABLES
    kind,        \* kind[c]: "post" or "ws", the entry point the connection hit
    cred,        \* cred[c]: the credential presented on the connection
    cpc,         \* cpc[c]: position of the connection's entry code
    user,        \* user[c]: request.user?.userId / decoded.userId
    headersSent, \* headersSent[c]: reply.raw.headersSent
    peerGone,    \* peerGone[c]: the peer closed the connection
    wire,        \* wire[c]: what the server wrote to the transport, in order
    rel,         \* rel[r]: the r-th handler invocation (session)
    acked,       \* acked[c]: how many writes of wire[c] the transport has
                 \* flushed to the peer (the write callback / 'drain')
    users,       \* the stored users: records [id, email]
    personas,    \* the stored personas: the user_id of each
    reg          \* reg[k]: the k-th call of AuthService.register

vars == <<kind, cred, cpc, user, headersSent, peerGone, wire, rel, acked,
          users, personas, reg>>

chatVars == <<kind, cred, cpc, user, headersSent, peerGone, wire, rel, acked>>

authVars == <<users, personas, reg>>

Relays == 1..Len(rel)

\* ------------------------------------------------------------- wire events
\* t: "head"    reply.raw.writeHead(200, text/event-stream ...)
\*    "content" one SSE data event {content} / one socket frame {type:chunk}
\*    "done"    SSE data: [DONE] / socket frame {type:done}
\*    "error"   SSE data event {error} / socket frame {error}
\*    "end"     reply.raw.end()
\*    "status"  an out-of-band reply with a status code (successResponse,
\*              errorResponse, unauthorizedResponse)
\*    "close"   connection.socket.close(code, reason)
\* r: the session that wrote it (0: the entry code of the connection)
\* msg: the message; for an errorResponse after an upstream failure the
\*      class of the error that is handed over with it
\* gone: the peer had already closed when the write was issued
Ev(t, r, text, code, msg, gone) ==
    [t |-> t, r |-> r, text |-> text, code |-> code, msg |-> msg, gone |-> gone]

\* ------------------------------------------------------------ pure helpers
\* jwt verification of a presented credential (request.jwtVerify and
\* fastify.jwt.verify): succeeds or throws.
JwtVerifies(cr) ==
    cr.present /\ cr.verifies

\* validate(chatRequestSchema, body): throws ZodError on a malformed shape or
\* an empty message list.
Validate(b) ==
    b.shapeOk /\ b.hasMessages /\ b.messages # <<>>

\* const { messages = [], stream = false } = data
Messages(b) ==
    IF b.hasMessages THEN b.messages ELSE <<>>

\* chunk.choices[0]?.delta?.content || ''
Content(chunk) ==
    IF chunk.hasContent THEN chunk.content ELSE <<>>

\* if (!messages) of the socket handler: a missing field is falsy, an array
\* (also the empty one) is truthy.
MessagesTruthy(b) ==
    b.hasMessages

RECURSIVE ConcatAll(_)
\* In-order concatenation of a sequence of texts.
ConcatAll(ts) ==
    IF ts = <<>> THEN <<>> ELSE Head(ts) \o ConcatAll(Tail(ts))

\* llmService.chat(userId, messages, false): the service drains its own
\* generator and returns the concatenated fragment text.
ChatText(frs) ==
    ConcatAll([i \in 1..Len(frs) |-> Content(frs[i])])

\* Variant of Committed that only looks at the last write.
CommittedByLast(hs, w) ==
    w # <<>> /\ w[Len(w)].t \in {"head", "status"}

\* reply.raw.headersSent after the writes w of the response: the headers go
\* out with writeHead or with the one out-of-band reply, and stay sent.
Committed(hs, w) ==
    hs \/ \E i \in 1..Len(w) : w[i].t \in {"head", "status"}

\* ------------------------------------------------------------ initial state
NewRelay(c, b) ==
    [conn |-> c, body |-> b, pc |-> "start", valid |-> FALSE, stream |-> FALSE,
     gen |-> "none", genUser |-> NoUser, genMsgs |-> <<>>, acquired |-> 0,
     produced |-> <<>>, goneAt |-> -1, pullsGone |-> 0]

\* Variant of Called for a handler that calls llmService.chat a second time.
CalledTwice(rec, uid, msgs) ==
    [rec EXCEPT !.pc = "acquire", !.gen = "pending", !.genUser = uid,
                !.genMsgs = msgs, !.acquired = @ + 2]

\* The record of a session whose handler has just called
\* llmService.chat(uid, msgs, ...) and awaits the result.
Called(rec, uid, msgs) ==
    [rec EXCEPT !.pc = "acquire", !.gen = "pending", !.genUser = uid,
                !.genMsgs = msgs, !.acquired = @ + 1]

Init ==
    /\ kind \in [Conns -> {"post", "ws"}]
    /\ cred \in [Conns -> Credentials]
    /\ cpc = [c \in Conns |-> "arrived"]
    /\ user = [c \in Conns |-> NoUser]
    /\ headersSent = [c \in Conns |-> FALSE]
    /\ peerGone = [c \in Conns |-> FALSE]
    /\ wire = [c \in Conns |-> <<>>]
    /\ rel = <<>>
    /\ acked = [c \in Conns |-> 0]
    /\ users = {} /\ personas = {} /\ reg = <<>>

\* ------------------------------------------------------- POST / (push-stream)
\* preHandler authenticate: request.jwtVerify() or a 401 reply; the handler
\* runs only when the preHandler sent nothing.
Authenticate(c) ==
    /\ kind[c] = "post"
    /\ cpc[c] = "arrived"
    /\ IF JwtVerifies(cred[c])
       THEN /\ user' = [user EXCEPT ![c] = cred[c].userId]
            /\ cpc' = [cpc EXCEPT ![c] = "handler"]
            /\ wire' = wire
       ELSE /\ wire' = [wire EXCEPT ![c] =
                    Append(@, Ev("status", 0, <<>>, 401, "Invalid or expired token", peerGone[c]))]
            /\ cpc' = [cpc EXCEPT ![c] = "closed"]
            /\ user' = user
    /\ headersSent' = [headersSent EXCEPT ![c] = Committed(@, wire'[c])]
    /\ UNCHANGED <<authVars, acked, kind, cred, peerGone, rel>>

\* Variant of PostCatch that answers every upstream failure with 500.
PostCatchAll500(w, hs, r, err, gone) ==
    IF err = "ZodError"
    THEN IF hs
         THEN w \o << Ev("error", r, <<>>, 0, "Validation error", gone),
                      Ev("end", r, <<>>, 0, "", gone) >>
         ELSE Append(w, Ev("status", r, <<>>, 400, "Validation error", gone))
    ELSE IF hs
         THEN w \o << Ev("error", r, <<>>, 0, "upstream", gone),
                      Ev("end", r, <<>>, 0, "", gone) >>
         ELSE Append(w, Ev("status", r, <<>>, 500, err, gone))

\* Variant of PostCatch without the ZodError branch.
PostCatchNoZod(w, hs, r, err, gone) ==
    IF hs
    THEN w \o << Ev("error", r, <<>>, 0, "upstream", gone),
                 Ev("end", r, <<>>, 0, "", gone) >>
    ELSE Append(w, Ev("status", r, <<>>,
                      IF err = "AuthorizationError" THEN 401 ELSE 500,
                      err, gone))

\* Variant of PostCatch that leaves the committed response open.
PostCatchNoEnd(w, hs, r, err, gone) ==
    IF err = "ZodError"
    THEN IF hs
         THEN Append(w, Ev("error", r, <<>>, 0, "Validation error", gone))
         ELSE Append(w, Ev("status", r, <<>>, 400, "Validation error", gone))
    ELSE IF hs
         THEN Append(w, Ev("error", r, <<>>, 0, "upstream", gone))
         ELSE Append(w, Ev("status", r, <<>>,
                           IF err = "AuthorizationError" THEN 401 ELSE 500,
                           err, gone))

\* Variant of PostCatch that does not look at reply.raw.headersSent.
PostCatchAlwaysStatus(w, hs, r, err, gone) ==
    IF err = "ZodError"
    THEN Append(w, Ev("status", r, <<>>, 400, "Validation error", gone))
    ELSE Append(w, Ev("status", r, <<>>,
                      IF err = "AuthorizationError" THEN 401 ELSE 500,
                      err, gone))

\* The catch block of the POST handler: what it writes for error err thrown
\* in session r, given reply.raw.headersSent.
PostCatch(w, hs, r, err, gone) ==
    IF err = "ZodError"
    THEN IF hs
         THEN w \o << Ev("error", r, <<>>, 0, "Validation error", gone),
                      Ev("end", r, <<>>, 0, "", gone) >>
         ELSE Append(w, Ev("status", r, <<>>, 400, "Validation error", gone))
    ELSE IF hs
         THEN w \o << Ev("error", r, <<>>, 0, "upstream", gone),
                      Ev("end", r, <<>>, 0, "", gone) >>
         ELSE Append(w, Ev("status", r, <<>>,
                           IF err = "AuthorizationError" THEN 401 ELSE 500,
                           err, gone))

\* Variant of PostEntry that writes the SSE preamble before it validates.
PostEntryHeadFirst(uid, b, r, gone) ==
    IF uid = NoUser
    THEN [out |-> << Ev("status", r, <<>>, 401, "Unauthorized", gone) >>,
          valid |-> FALSE, goOn |-> FALSE, commit |-> FALSE]
    ELSE IF b.stream
    THEN IF ~Validate(b)
         THEN [out |-> PostCatch(<< Ev("head", r, <<>>, 200, "text/event-stream", gone) >>,
                                 TRUE, r, "ZodError", gone),
               valid |-> FALSE, goOn |-> FALSE, commit |-> TRUE]
         ELSE [out |-> << Ev("head", r, <<>>, 200, "text/event-stream", gone) >>,
               valid |-> TRUE, goOn |-> TRUE, commit |-> TRUE]
    ELSE IF ~Validate(b)
    THEN [out |-> PostCatch(<<>>, FALSE, r, "ZodError", gone),
          valid |-> FALSE, goOn |-> FALSE, commit |-> FALSE]
    ELSE [out |-> <<>>, valid |-> TRUE, goOn |-> TRUE, commit |-> FALSE]

\* Variant of PostEntry that streams whatever the stream flag says.
PostEntryAlwaysStream(uid, b, r, gone) ==
    IF uid = NoUser
    THEN [out |-> << Ev("status", r, <<>>, 401, "Unauthorized", gone) >>,
          valid |-> FALSE, goOn |-> FALSE, commit |-> FALSE]
    ELSE IF ~Validate(b)
    THEN [out |-> PostCatch(<<>>, FALSE, r, "ZodError", gone),
          valid |-> FALSE, goOn |-> FALSE, commit |-> FALSE]
    ELSE [out |-> << Ev("head", r, <<>>, 200, "text/event-stream", gone) >>,
          valid |-> TRUE, goOn |-> TRUE, commit |-> TRUE]

\* Variant of PostEntry without the userId check.
PostEntryNoUserCheck(uid, b, r, gone) ==
    IF ~Validate(b)
    THEN [out |-> PostCatch(<<>>, FALSE, r, "ZodError", gone),
          valid |-> FALSE, goOn |-> FALSE, commit |-> FALSE]
    ELSE IF b.stream
    THEN [out |-> << Ev("head", r, <<>>, 200, "text/event-stream", gone) >>,
          valid |-> TRUE, goOn |-> TRUE, commit |-> TRUE]
    ELSE [out |-> <<>>, valid |-> TRUE, goOn |-> TRUE, commit |-> FALSE]

\* Variant of PostEntry that calls llmService.chat before the preamble.
PostEntryLateHead(uid, b, r, gone) ==
    IF uid = NoUser
    THEN [out |-> << Ev("status", r, <<>>, 401, "Unauthorized", gone) >>,
          valid |-> FALSE, goOn |-> FALSE, commit |-> FALSE]
    ELSE IF ~Validate(b)
    THEN [out |-> PostCatch(<<>>, FALSE, r, "ZodError", gone),
          valid |-> FALSE, goOn |-> FALSE, commit |-> FALSE]
    ELSE [out |-> <<>>, valid |-> TRUE, goOn |-> TRUE, commit |-> FALSE]

\* The handler up to its first await: userId check, validate, and for
\* stream = true the SSE preamble; it then awaits llmService.chat.
\* Result: the events written and whether the handler goes on.
PostEntry(uid, b, r, gone) ==
    IF uid = NoUser
    THEN [out |-> << Ev("status", r, <<>>, 401, "Unauthorized", gone) >>,
          valid |-> FALSE, goOn |-> FALSE, commit |-> FALSE]
    ELSE IF ~Validate(b)
    THEN [out |-> PostCatch(<<>>, FALSE, r, "ZodError", gone),
          valid |-> FALSE, goOn |-> FALSE, commit |-> FALSE]
    ELSE IF b.stream
    THEN [out |-> << Ev("head", r, <<>>, 200, "text/event-stream", gone) >>,
          valid |-> TRUE, goOn |-> TRUE, commit |-> TRUE]
    ELSE [out |-> <<>>, valid |-> TRUE, goOn |-> TRUE, commit |-> FALSE]

PostHandler(c) ==
    /\ kind[c] = "post"
    /\ cpc[c] = "handler"
    /\ Len(rel) < MaxRelays
    /\ \E b \in PostBodies :
         LET r == Len(rel) + 1
             e == PostEntry(user[c], b, r, peerGone[c])
         IN /\ wire' = [wire EXCEPT ![c] = @ \o e.out]
            /\ headersSent' = [headersSent EXCEPT ![c] = Committed(@ \/ e.commit, wire'[c])]
            /\ rel' = Append(rel,
                    LET rec == [NewRelay(c, b) EXCEPT
                                   !.valid = e.valid,
                                   !.stream = e.valid /\ b.stream,
                                   !.pc = "done"]
                    IN IF e.goOn THEN Called(rec, user[c], Messages(b)) ELSE rec)
            /\ cpc' = [cpc EXCEPT ![c] = IF e.goOn THEN "running" ELSE "closed"]
    /\ UNCHANGED <<authVars, acked, kind, cred, user, peerGone>>

\* Variant of NonStreamReply that replies without the text.
NonStreamReplyNoText(w, r, response, gone) ==
    Append(w, Ev("status", r, <<>>, 200, "success", gone))

\* successResponse(reply, {message: {role: 'assistant', content: response}})
NonStreamReply(w, r, response, gone) ==
    Append(w, Ev("status", r, response, 200, "success", gone))

\* ------------------------------------------------- GET /stream (websocket)
\* The connection handler up to its first await: the token of the query
\* string is read; a missing token closes the socket with 1008.
WsConnect(c) ==
    /\ kind[c] = "ws"
    /\ cpc[c] = "arrived"
    /\ IF ~cred[c].present
       THEN /\ wire' = [wire EXCEPT ![c] =
                    Append(@, Ev("close", 0, <<>>, 1008, "Missing authentication token", peerGone[c]))]
            /\ cpc' = [cpc EXCEPT ![c] = "closed"]
       ELSE /\ cpc' = [cpc EXCEPT ![c] = "verify"]
            /\ wire' = wire
    /\ UNCHANGED <<authVars, acked, kind, cred, user, headersSent, peerGone, rel>>

\* Variant of WsVerdict without the userId check.
WsVerdictNoUserCheck(cr) ==
    IF ~JwtVerifies(cr) THEN "Invalid or expired token" ELSE "open"

\* Variant of WsVerdict that reads the payload without verifying the token.
WsVerdictNoVerify(cr) ==
    IF ~cr.present THEN "Invalid or expired token"
    ELSE IF cr.userId = NoUser THEN "Invalid token payload"
    ELSE "open"

\* What the connection handler does once fastify.jwt.verify has settled:
\* "open" registers the message and close handlers, anything else is the
\* reason of a close(1008).
WsVerdict(cr) ==
    IF ~JwtVerifies(cr) THEN "Invalid or expired token"
    ELSE IF cr.userId = NoUser THEN "Invalid token payload"
    ELSE "open"

WsVerify(c) ==
    /\ kind[c] = "ws"
    /\ cpc[c] = "verify"
    /\ LET v == WsVerdict(cred[c])
       IN IF v = "open"
          THEN /\ user' = [user EXCEPT ![c] = cred[c].userId]
               /\ cpc' = [cpc EXCEPT ![c] = "open"]
               /\ wire' = wire
          ELSE /\ wire' = [wire EXCEPT ![c] =
                       Append(@, Ev("close", 0, <<>>, 1008, v, peerGone[c]))]
               /\ cpc' = [cpc EXCEPT ![c] = "closed"]
               /\ user' = user
    /\ UNCHANGED <<authVars, acked, kind, cred, headersSent, peerGone, rel>>

\* Variant of WsCatch that also sends the done frame.
WsCatchWithDone(w, r, msg, gone) ==
    w \o << Ev("error", r, <<>>, 0, msg, gone), Ev("done", r, <<>>, 0, "", gone) >>

\* The catch block of the message handler: one {error} frame that carries
\* error.message.
WsCatch(w, r, msg, gone) ==
    Append(w, Ev("error", r, <<>>, 0, msg, gone))

\* Variant of WsEntry that goes on after the "messages are required" frame.
WsEntryNoReturn(b, r, gone) ==
    IF ~b.json
    THEN [out |-> WsCatch(<<>>, r, "parse", gone), valid |-> FALSE, goOn |-> FALSE]
    ELSE IF ~MessagesTruthy(b)
    THEN [out |-> << Ev("error", r, <<>>, 0, "messages are required", gone) >>,
          valid |-> FALSE, goOn |-> TRUE]
    ELSE [out |-> <<>>, valid |-> TRUE, goOn |-> TRUE]

\* Variant of WsEntry whose JSON.parse failure is swallowed without a frame.
WsEntrySilentParse(b, r, gone) ==
    IF ~b.json
    THEN [out |-> <<>>, valid |-> FALSE, goOn |-> FALSE]
    ELSE IF ~MessagesTruthy(b)
    THEN [out |-> << Ev("error", r, <<>>, 0, "messages are required", gone) >>,
          valid |-> FALSE, goOn |-> FALSE]
    ELSE [out |-> <<>>, valid |-> TRUE, goOn |-> TRUE]

\* The message handler up to its first await: JSON.parse, the messages
\* check, then the call of llmService.chat.
WsEntry(b, r, gone) ==
    IF ~b.json
    THEN [out |-> WsCatch(<<>>, r, "parse", gone), valid |-> FALSE, goOn |-> FALSE]
    ELSE IF ~MessagesTruthy(b)
    THEN [out |-> << Ev("error", r, <<>>, 0, "messages are required", gone) >>,
          valid |-> FALSE, goOn |-> FALSE]
    ELSE [out |-> <<>>, valid |-> TRUE, goOn |-> TRUE]

\* Variant of WsMessageOf that takes the userId from the payload when the
\* client sent one.
WsMessageOfClaimed(c, cap, msgs) ==
    /\ kind[c] = "ws"
    /\ cpc[c] = "open"
    /\ ~peerGone[c]
    /\ Len(rel) < cap
    /\ \E b \in msgs :
         LET r == Len(rel) + 1
             e == WsEntry(b, r, peerGone[c])
             uid == IF b.claimedUser # NoUser THEN b.claimedUser ELSE user[c]
         IN /\ wire' = [wire EXCEPT ![c] = @ \o e.out]
            /\ rel' = Append(rel,
                    LET rec == [NewRelay(c, b) EXCEPT
                                   !.valid = e.valid, !.stream = TRUE, !.pc = "done"]
                    IN IF e.goOn THEN Called(rec, uid, b.messages) ELSE rec)
    /\ UNCHANGED <<authVars, acked, kind, cred, cpc, user, headersSent, peerGone>>

\* An inbound message, one of msgs, on a socket whose handlers are
\* registered; at most cap handler invocations are started in a run.
WsMessageOf(c, cap, msgs) ==
    /\ kind[c] = "ws"
    /\ cpc[c] = "open"
    /\ ~peerGone[c]
    /\ Len(rel) < cap
    /\ \E b \in msgs :
         LET r == Len(rel) + 1
             e == WsEntry(b, r, peerGone[c])
         IN /\ wire' = [wire EXCEPT ![c] = @ \o e.out]
            /\ rel' = Append(rel,
                    LET rec == [NewRelay(c, b) EXCEPT
                                   !.valid = e.valid, !.stream = TRUE, !.pc = "done"]
                    IN IF e.goOn THEN Called(rec, user[c], b.messages) ELSE rec)
    /\ UNCHANGED <<authVars, acked, kind, cred, cpc, user, headersSent, peerGone>>

WsMessage(c) ==
    WsMessageOf(c, MaxRelays, SocketMessages)

\* ------------------------------------------------------ the relay (both)
\* The error path of session r on its transport.
Catch(c, r, err) ==
    IF kind[c] = "post"
    THEN PostCatch(wire[c], headersSent[c], r, err, peerGone[c])
    ELSE WsCatch(wire[c], r, "upstream", peerGone[c])

\* Variant of Finished that closes the socket with the relay.
FinishedClosesSocket(c) ==
    [cpc EXCEPT ![c] = "closed"]

\* A session that ended: the POST request is over, the socket stays open.
Finished(c) ==
    [cpc EXCEPT ![c] = IF kind[c] = "post" THEN "closed" ELSE @]

\* The next pull of the for-await loop is issued now.
PullIssued(rec, gone) ==
    [rec EXCEPT !.pullsGone = IF gone THEN @ + 1 ELSE @]

\* Variant of SendChunk with the done sentinel inside the loop.
SendChunkDoneInLoop(w, r, chunk, gone) ==
    IF Content(chunk) # <<>>
    THEN w \o << Ev("content", r, Content(chunk), 0, "", gone),
                 Ev("done", r, <<>>, 0, "", gone) >>
    ELSE w

\* Variant of SendChunk without the truthiness check.
SendChunkUnfiltered(w, r, chunk, gone) ==
    Append(w, Ev("content", r, Content(chunk), 0, "", gone))

\* Loop body for one chunk: the content is written when it is non-empty.
SendChunk(w, r, chunk, gone) ==
    IF Content(chunk) # <<>>
    THEN Append(w, Ev("content", r, Content(chunk), 0, "", gone))
    ELSE w

\* Variant of SendDone that ends the response without the sentinel.
SendDoneSilent(w, k, r, gone) ==
    IF k = "post" THEN Append(w, Ev("end", r, <<>>, 0, "", gone)) ELSE w

\* Variant of SendDone that leaves the response open.
SendDoneNoEnd(w, k, r, gone) ==
    Append(w, Ev("done", r, <<>>, 0, "", gone))

\* After the loop: SSE writes data: [DONE] and ends the response, the
\* socket sends {type: done}.
SendDone(w, k, r, gone) ==
    IF k = "post"
    THEN w \o << Ev("done", r, <<>>, 0, "", gone), Ev("end", r, <<>>, 0, "", gone) >>
    ELSE Append(w, Ev("done", r, <<>>, 0, "", gone))

\* await llmService.chat(userId, messages, true) resolves with a generator.
AcquireStream(r) ==
    /\ r \in Relays
    /\ rel[r].pc = "acquire"
    /\ rel[r].stream
    /\ rel' = [rel EXCEPT ![r] =
                 PullIssued([@ EXCEPT !.pc = "stream", !.gen = "live"],
                            peerGone[rel[r].conn])]
    /\ UNCHANGED <<authVars, acked, kind, cred, cpc, user, headersSent, peerGone, wire>>

\* await llmService.chat(userId, messages, false) resolves with the text.
AcquireText(r) ==
    /\ r \in Relays
    /\ rel[r].pc = "acquire"
    /\ ~rel[r].stream
    /\ \E frs \in ChunkSeqs :
         LET c == rel[r].conn
         IN /\ rel' = [rel EXCEPT ![r].pc = "done", ![r].gen = "completed",
                                  ![r].produced = frs]
            /\ wire' = [wire EXCEPT ![c] =
                          NonStreamReply(@, r, ChatText(frs), peerGone[c])]
            /\ headersSent' = [headersSent EXCEPT ![c] = Committed(@, wire'[c])]
            /\ cpc' = Finished(c)
    /\ UNCHANGED <<authVars, acked, kind, cred, user, peerGone>>

\* await llmService.chat(...) rejects.
AcquireFail(r) ==
    /\ r \in Relays
    /\ rel[r].pc = "acquire"
    /\ \E err \in UpstreamErrors :
         LET c == rel[r].conn
         IN /\ rel' = [rel EXCEPT ![r].pc = "done", ![r].gen = "failed"]
            /\ wire' = [wire EXCEPT ![c] = Catch(c, r, err)]
            /\ headersSent' = [headersSent EXCEPT ![c] = Committed(@, wire'[c])]
            /\ cpc' = Finished(c)
    /\ UNCHANGED <<authVars, acked, kind, cred, user, peerGone>>

\* The generator yields a chunk, at most n in all: loop body, then the
\* next pull.
GenYieldUpTo(r, n) ==
    /\ r \in Relays
    /\ rel[r].pc = "stream"
    /\ Len(rel[r].produced) < n
    /\ \E ch \in ChunksAt(Len(rel[r].produced) + 1) :
         LET c == rel[r].conn
         IN /\ wire' = [wire EXCEPT ![c] = SendChunk(@, r, ch, peerGone[c])]
            /\ rel' = [rel EXCEPT ![r] =
                         PullIssued([@ EXCEPT !.produced = Append(@, ch)], peerGone[c])]
    /\ UNCHANGED <<authVars, acked, kind, cred, cpc, user, headersSent, peerGone>>

GenYield(r) ==
    GenYieldUpTo(r, MaxFrags)

\* The generator completes: the loop exits normally.
GenComplete(r) ==
    /\ r \in Relays
    /\ rel[r].pc = "stream"
    /\ LET c == rel[r].conn
       IN /\ wire' = [wire EXCEPT ![c] = SendDone(@, kind[c], r, peerGone[c])]
          /\ rel' = [rel EXCEPT ![r].pc = "done", ![r].gen = "completed"]
          /\ cpc' = Finished(c)
    /\ UNCHANGED <<authVars, acked, kind, cred, user, headersSent, peerGone>>

\* The generator throws in the middle of the stream.
GenFail(r) ==
    /\ r \in Relays
    /\ rel[r].pc = "stream"
    /\ \E err \in UpstreamErrors :
         LET c == rel[r].conn
         IN /\ wire' = [wire EXCEPT ![c] = Catch(c, r, err)]
            /\ headersSent' = [headersSent EXCEPT ![c] = Committed(@, wire'[c])]
            /\ rel' = [rel EXCEPT ![r].pc = "done", ![r].gen = "failed"]
            /\ cpc' = Finished(c)
    /\ UNCHANGED <<authVars, acked, kind, cred, user, peerGone>>

\* ------------------------------------------------------------------- peer
\* Content events session r has written so far.
ContentEvents(w, r) ==
    SelectSeq(w, LAMBDA e : e.t = "content" /\ e.r = r)

\* The peer closes the connection.  The socket's close handler only logs;
\* the POST handler registers nothing for it.  goneAt remembers how many
\* content events each running session had written by then.
PeerClose(c) ==
    /\ ~peerGone[c]
    /\ cpc[c] \in {"running", "open"}
    /\ peerGone' = [peerGone EXCEPT ![c] = TRUE]
    /\ rel' = [r \in Relays |->
                 IF rel[r].conn = c /\ rel[r].pc \in {"acquire", "stream"}
                 THEN [rel[r] EXCEPT !.goneAt = Len(ContentEvents(wire[c], r))]
                 ELSE rel[r]]
    /\ UNCHANGED <<authVars, acked, kind, cred, cpc, user, headersSent, wire>>

\* ------------------------------------------------------------------- spec
Next ==
    \/ \E c \in Conns : Authenticate(c)
    \/ \E c \in Conns : PostHandler(c)
    \/ \E c \in Conns : WsConnect(c)
    \/ \E c \in Conns : WsVerify(c)
    \/ \E c \in Conns : WsMessage(c)
    \/ \E c \in Conns : PeerClose(c)
    \/ \E r \in Relays : AcquireStream(r)
    \/ \E r \in Relays : AcquireText(r)
    \/ \E r \in Relays : AcquireFail(r)
    \/ \E r \in Relays : GenYield(r)
    \/ \E r \in Relays : GenComplete(r)
    \/ \E r \in Relays : GenFail(r)

Spec == Init /\ [][Next]_vars

\* ---------------------------------------- several messages on one socket
\* The runs of one verified socket that receives up to MaxConc messages,
\* each handled by its own invocation of the async message handler.  The
\* peer stays connected in these runs; what the handlers do once it is gone
\* is covered by Spec.
ConcMessages ==
    { b \in SocketMessages : b.json /\ (b.hasMessages => b.messages # <<>>) }

InitConc ==
    /\ kind = [c \in Conns |-> "ws"]
    /\ cred = [c \in Conns |-> [present |-> TRUE, verifies |-> TRUE, userId |-> "u1"]]
    /\ cpc = [c \in Conns |-> "arrived"]
    /\ user = [c \in Conns |-> NoUser]
    /\ headersSent = [c \in Conns |-> FALSE]
    /\ peerGone = [c \in Conns |-> FALSE]
    /\ wire = [c \in Conns |-> <<>>]
    /\ rel = <<>>
    /\ acked = [c \in Conns |-> 0]
    /\ users = {} /\ personas = {} /\ reg = <<>>

WsMessageConc(c) ==
    WsMessageOf(c, MaxConc, ConcMessages)

GenYieldConc(r) ==
    GenYieldUpTo(r, ConcFrags)

NextConc ==
    \/ \E c \in Conns : WsConnect(c)
    \/ \E c \in Conns : WsVerify(c)
    \/ \E c \in Conns : WsMessageConc(c)
    \/ \E r \in Relays : AcquireStream(r)
    \/ \E r \in Relays : AcquireFail(r)
    \/ \E r \in Relays : GenYieldConc(r)
    \/ \E r \in Relays : GenComplete(r)
    \/ \E r \in Relays : GenFail(r)

SpecConc == InitConc /\ [][NextConc]_vars

\* ------------------------------------------------- a transport that lags
\* The transport flushes the oldest write it still buffers.  The handlers
\* pass no callback to reply.raw.write / socket.send, do not look at the
\* value write returns and wait for no 'drain' event, so nothing in them
\* waits for this step.
Drain(c) ==
    /\ acked[c] < Len(wire[c])
    /\ acked' = [acked EXCEPT ![c] = @ + 1]
    /\ UNCHANGED <<authVars, kind, cred, cpc, user, headersSent, peerGone, wire, rel>>

\* The runs in which the transport flushes at its own pace.
NextAck ==
    \/ \E c \in Conns : Authenticate(c)
    \/ \E c \in Conns : PostHandler(c)
    \/ \E c \in Conns : WsConnect(c)
    \/ \E c \in Conns : WsVerify(c)
    \/ \E c \in Conns : WsMessage(c)
    \/ \E c \in Conns : PeerClose(c)
    \/ \E c \in Conns : Drain(c)
    \/ \E r \in Relays : AcquireStream(r)
    \/ \E r \in Relays : AcquireText(r)
    \/ \E r \in Relays : AcquireFail(r)
    \/ \E r \in Relays : GenYield(r)
    \/ \E r \in Relays : GenComplete(r)
    \/ \E r \in Relays : GenFail(r)

SpecAck == Init /\ [][NextAck]_vars

\* The runs under fair scheduling: every operation of Next, each generator
\* yielding up to FairFrags chunks before it completes or fails.
GenYieldFair(r) ==
    GenYieldUpTo(r, FairFrags)

NextFair ==
    \/ \E c \in Conns : Authenticate(c)
    \/ \E c \in Conns : PostHandler(c)
    \/ \E c \in Conns : WsConnect(c)
    \/ \E c \in Conns : WsVerify(c)
    \/ \E c \in Conns : WsMessage(c)
    \/ \E c \in Conns : PeerClose(c)
    \/ \E r \in Relays : AcquireStream(r)
    \/ \E r \in Relays : AcquireText(r)
    \/ \E r \in Relays : AcquireFail(r)
    \/ \E r \in Relays : GenYieldFair(r)
    \/ \E r \in Relays : GenComplete(r)
    \/ \E r \in Relays : GenFail(r)

\* One step of session r past an await: the promise of llmService.chat or
\* of the next pull settles.  A finite generator settles every pull, and
\* the event loop then resumes the handler.
RelayStep(r) ==
    \/ AcquireStream(r)
    \/ AcquireText(r)
    \/ AcquireFail(r)
    \/ GenYieldFair(r)
    \/ GenComplete(r)
    \/ GenFail(r)

SpecFair ==
    Init /\ [][NextFair]_vars /\ \A r \in 1..MaxRelays : WF_vars(RelayStep(r))

\* ------------------------------------------------- AuthService.register
\* userRepository.findByEmail(email): the stored users with that email (the
\* call resolves with one of them, or with null when there is none).
FindByEmail(us, e) ==
    { u \in us : u.email = e }

\* Variant of EmailConflict for a users table without the unique index.
EmailConflictNone(us, e) ==
    FALSE

\* The unique index on users.email, which the INSERT ... ON CONFLICT (email)
\* of scripts/seed-products.ts names: an insert of a stored email conflicts.
EmailConflict(us, e) ==
    \E u \in us : u.email = e

\* The runs of AuthService.register: a user may be stored beforehand, no
\* chat request is made.
InitAuth ==
    /\ kind = [c \in Conns |-> "post"]
    /\ cred = [c \in Conns |-> [present |-> FALSE, verifies |-> FALSE, userId |-> NoUser]]
    /\ cpc = [c \in Conns |-> "arrived"]
    /\ user = [c \in Conns |-> NoUser]
    /\ headersSent = [c \in Conns |-> FALSE]
    /\ peerGone = [c \in Conns |-> FALSE]
    /\ wire = [c \in Conns |-> <<>>]
    /\ rel = <<>>
    /\ acked = [c \in Conns |-> 0]
    /\ users \in SeedUsers
    /\ personas = { u.id : u \in users }
    /\ reg = <<>>

\* register(data) is called; it awaits userRepository.findByEmail.
\* existed remembers whether the email was stored when the call was made.
RegisterCall ==
    /\ Len(reg) < MaxCalls
    /\ \E e \in Emails :
         reg' = Append(reg, [email |-> e, pc |-> "find", outcome |-> "pending",
                             existed |-> FindByEmail(users, e) # {}])
    /\ UNCHANGED <<chatVars, users, personas>>

\* Variant of RegisterFind without the check of existing.
RegisterFindNoCheck(k) ==
    /\ k \in 1..Len(reg)
    /\ reg[k].pc = "find"
    /\ reg' = [reg EXCEPT ![k].pc = "hash"]
    /\ UNCHANGED <<chatVars, users, personas>>

\* findByEmail resolves: an existing user makes register throw
\* EMAIL_ALREADY_EXISTS, otherwise it awaits bcrypt.hash.
RegisterFind(k) ==
    /\ k \in 1..Len(reg)
    /\ reg[k].pc = "find"
    /\ reg' = IF FindByEmail(users, reg[k].email) # {}
              THEN [reg EXCEPT ![k].pc = "done", ![k].outcome = "EMAIL_ALREADY_EXISTS"]
              ELSE [reg EXCEPT ![k].pc = "hash"]
    /\ UNCHANGED <<chatVars, users, personas>>

\* bcrypt.hash resolves; register awaits userRepository.create.
RegisterHash(k) ==
    /\ k \in 1..Len(reg)
    /\ reg[k].pc = "hash"
    /\ reg' = [reg EXCEPT ![k].pc = "create"]
    /\ UNCHANGED <<chatVars, users, personas>>

\* userRepository.create resolves with the new user (its id is the number
\* of the call); register awaits personaRepository.create.  The users
\* table has a unique index on email (scripts/seed-products.ts relies on it
\* with ON CONFLICT (email)), so an insert of a stored email is refused and
\* the error leaves register.
RegisterCreateUser(k) ==
    /\ k \in 1..Len(reg)
    /\ reg[k].pc = "create"
    /\ IF EmailConflict(users, reg[k].email)
       THEN /\ reg' = [reg EXCEPT ![k].pc = "done", ![k].outcome = "DatabaseError"]
            /\ users' = users
       ELSE /\ users' = users \cup {[id |-> k, email |-> reg[k].email]}
            /\ reg' = [reg EXCEPT ![k].pc = "persona"]
    /\ UNCHANGED <<chatVars, personas>>

\* personaRepository.create resolves; generateToken is synchronous and
\* register returns {user, token}.
RegisterCreatePersona(k) ==
    /\ k \in 1..Len(reg)
    /\ reg[k].pc = "persona"
    /\ personas' = personas \cup {k}
    /\ reg' = [reg EXCEPT ![k].pc = "done", ![k].outcome = "registered"]
    /\ UNCHANGED <<chatVars, users>>

NextAuth ==
    \/ RegisterCall
    \/ \E k \in 1..MaxCalls : RegisterFind(k)
    \/ \E k \in 1..MaxCalls : RegisterHash(k)
    \/ \E k \in 1..MaxCalls : RegisterCreateUser(k)
    \/ \E k \in 1..MaxCalls : RegisterCreatePersona(k)

SpecAuth == InitAuth /\ [][NextAuth]_vars

TypeOK ==
    /\ peerGone \in [Conns -> BOOLEAN]
    /\ headersSent \in [Conns -> BOOLEAN]
    /\ Len(rel) <= MaxRelays

\* ================================================================ properties
\* Events of session r on a wire, and the texts they carry.
EventsOf(w, r) ==
    SelectSeq(w, LAMBDA e : e.r = r)

OfType(w, r, ts) ==
    SelectSeq(w, LAMBDA e : e.r = r /\ e.t \in ts)

Texts(evs) ==
    [i \in 1..Len(evs) |-> evs[i].text]

Types(evs) ==
    [i \in 1..Len(evs) |-> evs[i].t]

\* The text of a fragment as the specification defines it: the content of
\* the chunk, empty when the chunk carries none.
FragmentText(chunk) ==
    IF chunk.hasContent THEN chunk.content ELSE <<>>

\* The generator's fragment sequence with the empty-text fragments removed.
NonEmptyFragments(frs) ==
    SelectSeq([i \in 1..Len(frs) |-> FragmentText(frs[i])], LAMBDA t : t # <<>>)

Wire(r) == wire[rel[r].conn]

IsPost(r) == kind[rel[r].conn] = "post"

\* C1: in every streaming session the content payloads written so far are
\* exactly the non-empty fragments the generator has produced so far, in
\* production order; at the end of the session that is the whole sequence.
C1_ContentEqualsFragments ==
    \A r \in Relays :
        rel[r].stream =>
            Texts(OfType(Wire(r), r, {"content"})) = NonEmptyFragments(rel[r].produced)

\* A finished stream whose generator produced a fragment without text and a
\* fragment with text.
C1_Witness ==
    \E r \in Relays :
        /\ rel[r].stream /\ rel[r].pc = "done" /\ rel[r].gen = "completed"
        /\ Len(rel[r].produced) = 2
        /\ \E i \in 1..2 : FragmentText(rel[r].produced[i]) = <<>>
        /\ Len(OfType(Wire(r), r, {"content"})) = 1

\* C2: once the peer is gone the session issues no further content write
\* and no further pull of the generator.
C2_PeerGoneStopsRelay ==
    \A r \in Relays :
        rel[r].stream =>
            /\ \A i \in 1..Len(Wire(r)) :
                 (Wire(r)[i].r = r /\ Wire(r)[i].t = "content") => ~Wire(r)[i].gone
            /\ rel[r].pullsGone = 0

\* C3: a streaming session writes at most one terminal event (done or
\* in-band error) and, once it is over, exactly one.
C3_OneTerminal ==
    \A r \in Relays :
        rel[r].stream =>
            LET n == Len(OfType(Wire(r), r, {"done", "error"}))
            IN /\ n <= 1
               /\ rel[r].pc = "done" => n = 1

\* A stream that failed after a content event and wrote its one terminal.
C3_Witness ==
    \E r \in Relays :
        /\ rel[r].stream /\ rel[r].pc = "done" /\ rel[r].gen = "failed"
        /\ Len(OfType(Wire(r), r, {"content"})) >= 1
        /\ Len(OfType(Wire(r), r, {"error"})) = 1

\* C4: the stream preamble is written at most once on a connection, and
\* only by a session whose request passed validation.
C4_OpenOnceAfterValidation ==
    \A c \in Conns :
        LET heads == SelectSeq(wire[c], LAMBDA e : e.t = "head")
        IN /\ Len(heads) <= 1
           /\ \A i \in 1..Len(heads) :
                /\ heads[i].r \in Relays
                /\ rel[heads[i].r].valid
                /\ Validate(rel[heads[i].r].body)

\* The preamble has been written.
C4_Witness ==
    \E c \in Conns : \E i \in 1..Len(wire[c]) : wire[c][i].t = "head"

\* The session ran validate(...) on its body and validation threw.
ValidationFailed(r) ==
    /\ IsPost(r)
    /\ user[rel[r].conn] # NoUser
    /\ ~(rel[r].body.shapeOk /\ rel[r].body.hasMessages /\ rel[r].body.messages # <<>>)

\* C5: a POST session whose validation fails writes exactly one event, the
\* out-of-band 400 reply: no preamble, content, done or in-band error, and
\* llmService.chat is never called.
C5_ValidationFailure ==
    \A r \in Relays :
        ValidationFailed(r) =>
            /\ Len(EventsOf(Wire(r), r)) = 1
            /\ EventsOf(Wire(r), r)[1].t = "status"
            /\ EventsOf(Wire(r), r)[1].code = 400
            /\ rel[r].acquired = 0
            /\ rel[r].gen = "none"

\* Scenario C: a streaming request with an empty message list was refused.
C5_Witness ==
    \E r \in Relays :
        /\ ValidationFailed(r)
        /\ rel[r].body.stream /\ rel[r].body.hasMessages /\ rel[r].body.shapeOk
        /\ rel[r].pc = "done"

\* What a failed stream has on the wire after its k content events.
FailureTail(r) ==
    IF IsPost(r) THEN <<"error", "end">> ELSE <<"error">>

\* C6: a streaming session whose generator failed has written its k content
\* events, then one in-band error, then (SSE) the end of the stream; no
\* done sentinel and no status reply.
C6_FailureMidStream ==
    \A r \in Relays :
        (rel[r].stream /\ rel[r].valid /\ rel[r].gen = "failed") =>
            LET evs == OfType(Wire(r), r, {"content", "done", "error", "end", "status", "close"})
                k == Len(NonEmptyFragments(rel[r].produced))
            IN /\ Types(evs) = [i \in 1..k |-> "content"] \o FailureTail(r)
               /\ Texts(SubSeq(evs, 1, k)) = NonEmptyFragments(rel[r].produced)

\* Scenario E on the push stream: the generator failed after two fragments.
C6_Witness ==
    \E r \in Relays :
        /\ IsPost(r) /\ rel[r].stream /\ rel[r].gen = "failed"
        /\ Len(OfType(Wire(r), r, {"content"})) = 2
        /\ Len(OfType(Wire(r), r, {"error"})) = 1

\* C7: after the preamble no out-of-band reply is written on the connection.
C7_NoStatusAfterCommit ==
    \A c \in Conns :
        \A i, j \in 1..Len(wire[c]) :
            (i < j /\ wire[c][i].t = "head") => wire[c][j].t # "status"

\* A committed response that ended with an in-band error.
C7_Witness ==
    \E c \in Conns : \E i, j \in 1..Len(wire[c]) :
        /\ i < j /\ wire[c][i].t = "head" /\ wire[c][j].t = "error"
        /\ headersSent[c]

\* C8: a session whose peer went away during the relay ends without a done
\* sentinel and without an in-band error; when the peer went away after the
\* first content event, one content event is all it wrote.
C8_QuietCancellation ==
    \A r \in Relays :
        (rel[r].stream /\ rel[r].goneAt # -1 /\ rel[r].pc = "done") =>
            /\ Len(OfType(Wire(r), r, {"done", "error"})) = 0
            /\ rel[r].goneAt = 1 => Len(OfType(Wire(r), r, {"content"})) = 1

\* C9: a valid non-streaming request is answered with the in-order
\* concatenation of the non-empty fragments the generator produced.
C9_NonStreamText ==
    \A r \in Relays :
        (IsPost(r) /\ rel[r].valid /\ ~rel[r].stream /\ rel[r].gen = "completed") =>
            /\ Len(EventsOf(Wire(r), r)) = 1
            /\ EventsOf(Wire(r), r)[1].t = "status"
            /\ EventsOf(Wire(r), r)[1].code = 200
            /\ EventsOf(Wire(r), r)[1].text = ConcatAll(NonEmptyFragments(rel[r].produced))

\* Scenario A: two fragments answered as one text.
C9_Witness ==
    \E r \in Relays :
        /\ IsPost(r) /\ ~rel[r].stream /\ rel[r].gen = "completed"
        /\ rel[r].produced = << [hasContent |-> TRUE, content |-> Text(1)],
                                [hasContent |-> TRUE, content |-> Text(2)] >>
        /\ EventsOf(Wire(r), r)[1].text = Text(1) \o Text(2)

\* The credential does not identify a caller.
BadCredential(cr) ==
    ~cr.present \/ ~cr.verifies \/ cr.userId = NoUser

C11_GeneratorAfterIdentity ==
    \A r \in Relays :
        rel[r].acquired > 0 =>
            LET c == rel[r].conn
            IN /\ cred[c].present /\ cred[c].verifies
               /\ cred[c].userId # NoUser
               /\ user[c] = cred[c].userId
               /\ rel[r].genUser = cred[c].userId

\* A generator is live for a session.
C11_Witness ==
    \E r \in Relays : rel[r].acquired = 1 /\ rel[r].gen = "live"

\* C12: on the wire no content event of a session follows a done or error
\* event of that session.
C12_NoContentAfterTerminal ==
    \A r \in Relays :
        \A i, j \in 1..Len(Wire(r)) :
            (/\ i < j
             /\ Wire(r)[i].r = r /\ Wire(r)[i].t \in {"done", "error"})
            => ~(Wire(r)[j].r = r /\ Wire(r)[j].t = "content")

\* A session wrote two content events and then its terminal event.
C12_Witness ==
    \E r \in Relays :
        /\ rel[r].pc = "done"
        /\ Len(OfType(Wire(r), r, {"content"})) = 2
        /\ Len(OfType(Wire(r), r, {"done", "error"})) = 1


\* Something of the response has been written: the stream preamble or an
\* out-of-band reply.
ResponseStarted(w) ==
    \E i \in 1..Len(w) : w[i].t \in {"head", "status"}

C14_NonStreamNeverOpens ==
    \A r \in Relays :
        (IsPost(r) /\ ~rel[r].body.stream) =>
            /\ Len(OfType(Wire(r), r, {"head", "content", "done", "error", "end"})) = 0
            /\ Len(OfType(Wire(r), r, {"status"})) <= 1
            /\ rel[r].pc = "done" => Len(OfType(Wire(r), r, {"status"})) = 1
            /\ rel[r].pc = "done" => Len(EventsOf(Wire(r), r)) = 1

\* A valid non-streaming request was answered with the success body.
C14_Witness ==
    \E r \in Relays :
        /\ IsPost(r) /\ rel[r].valid /\ ~rel[r].body.stream /\ rel[r].pc = "done"
        /\ rel[r].gen = "completed"
        /\ Types(EventsOf(Wire(r), r)) = <<"status">>
        /\ EventsOf(Wire(r), r)[1].code = 200

\* C15: a failure before commit is one out-of-band reply and nothing else:
\* 400 for a body that fails validation; for an upstream failure of a
\* non-streaming session 401 when the error is an AuthorizationError and
\* 500 otherwise.
C15_PreCommitStatus ==
    \A r \in Relays :
        /\ ValidationFailed(r) =>
              /\ Types(EventsOf(Wire(r), r)) = <<"status">>
              /\ EventsOf(Wire(r), r)[1].code = 400
        /\ (IsPost(r) /\ rel[r].valid /\ ~rel[r].stream /\ rel[r].gen = "failed") =>
              /\ Types(EventsOf(Wire(r), r)) = <<"status">>
              /\ EventsOf(Wire(r), r)[1].msg \in UpstreamErrors
              /\ EventsOf(Wire(r), r)[1].code =
                    IF EventsOf(Wire(r), r)[1].msg = "AuthorizationError" THEN 401 ELSE 500

\* The upstream refused a non-streaming request with an AuthorizationError.
C15_Witness ==
    \E r \in Relays :
        /\ IsPost(r) /\ rel[r].valid /\ ~rel[r].stream /\ rel[r].gen = "failed"
        /\ EventsOf(Wire(r), r)[1].code = 401


\* C16: llmService.chat is never called with an empty message list; the
\* list it gets is the caller's, in the caller's order.
C16_NonEmptyMessages ==
    \A r \in Relays :
        rel[r].acquired > 0 =>
            /\ rel[r].genMsgs # <<>>
            /\ rel[r].genMsgs = rel[r].body.messages

\* C17: a streaming session always ends, and a POST session that wrote the
\* preamble ends its response at most once and, when it is over, once.
C17_StreamTerminates ==
    /\ \A r \in 1..MaxRelays :
          (r \in Relays /\ rel[r].stream) ~> (r \in Relays /\ rel[r].pc = "done")
    /\ [](\A r \in Relays :
            (IsPost(r) /\ Len(OfType(Wire(r), r, {"head"})) = 1) =>
                /\ Len(OfType(Wire(r), r, {"end"})) <= 1
                /\ rel[r].pc = "done" => Len(OfType(Wire(r), r, {"end"})) = 1)

\* A committed POST stream failed and was ended.
C17_Witness ==
    \E r \in Relays :
        /\ IsPost(r) /\ rel[r].stream /\ rel[r].pc = "done" /\ rel[r].gen = "failed"
        /\ Len(OfType(Wire(r), r, {"end"})) = 1

\* Position of a session in the order of its phases: the request was
\* validated and llmService.chat is awaited, the relay loop runs, the
\* session is over.
Rank(pc) ==
    CASE pc = "acquire" -> 1 [] pc = "stream" -> 2 [] pc = "done" -> 3

\* What holds of session r in any one state (rl, w: the sessions and the
\* wire of its connection): a session that failed validation is over and
\* never had a generator, a non-streaming session never is in the relay
\* loop, the relay loop has a live generator, and whoever wrote a terminal
\* event, a stream end or an out-of-band reply is over.
SessionShape(rl, w, r) ==
    /\ ~rl[r].valid => (rl[r].pc = "done" /\ rl[r].gen = "none" /\ rl[r].produced = <<>>)
    /\ ~rl[r].stream => rl[r].pc # "stream"
    /\ rl[r].pc = "stream" <=> rl[r].gen = "live"
    /\ rl[r].pc = "acquire" <=> rl[r].gen = "pending"
    /\ Len(OfType(w, r, {"done", "error", "end", "status"})) > 0 => rl[r].pc = "done"

\* C18: the phase of a session never goes backwards, sessions have the shape
\* of their phase, and a session that is over changes nothing any more: no
\* write, no pull.
C18_Phases ==
    [][\A r \in Relays :
          /\ r \in 1..Len(rel')
          /\ Rank(rel'[r].pc) >= Rank(rel[r].pc)
          /\ SessionShape(rel, Wire(r), r)
          /\ SessionShape(rel', wire'[rel[r].conn], r)
          /\ rel[r].pc = "done" =>
                /\ rel'[r] = rel[r]
                /\ EventsOf(wire'[rel[r].conn], r) = EventsOf(Wire(r), r)]_vars

\* A session went through the relay loop and is over.
C18_Witness ==
    \E r \in Relays :
        /\ rel[r].stream /\ rel[r].pc = "done" /\ rel[r].gen = "completed"
        /\ Len(rel[r].produced) = 2

\* The entry code has decided about the credential of the connection.
Decided(c) ==
    cpc[c] \in {"closed", "running", "open"}

\* The connection was turned away for its credential.
Rejected(c) ==
    \E i \in 1..Len(wire[c]) :
        \/ /\ wire[c][i].t = "status" /\ wire[c][i].code = 401
           /\ wire[c][i].msg \in {"Invalid or expired token", "Unauthorized"}
        \/ wire[c][i].t = "close" /\ wire[c][i].code = 1008

\* C19: on either entry point a credential is turned away exactly when it
\* is missing, does not verify or names no user, and an accepted one yields
\* its own userId: the same condition and the same identity on both.
C19_SameVerification ==
    \A c \in Conns :
        Decided(c) =>
            /\ Rejected(c) <=> BadCredential(cred[c])
            /\ ~Rejected(c) => (user[c] = cred[c].userId /\ user[c] # NoUser)

\* The POST entry point turned away a token that verifies but names no
\* user, which the socket entry point turns away in WsVerify.
C19_Witness ==
    \E c \in Conns :
        /\ kind[c] = "post" /\ cred[c].verifies /\ cred[c].userId = NoUser
        /\ Decided(c) /\ Rejected(c)


\* C20: on one socket the frames of a later message never come before a
\* frame of an earlier message: the relays do not interleave.
C20_NoInterleaving ==
    \A c \in Conns :
        \A i, j \in 1..Len(wire[c]) :
            (i < j /\ wire[c][i].r > 0 /\ wire[c][j].r > 0)
            => wire[c][i].r <= wire[c][j].r


\* Content sends of session r that the transport has not flushed yet.
UnackedSends(r) ==
    { i \in (acked[rel[r].conn] + 1)..Len(Wire(r)) :
        Wire(r)[i].r = r /\ Wire(r)[i].t = "content" }

\* C21: a session never has more than one content send outstanding that the
\* transport has not acknowledged: each send is acknowledged before the next
\* fragment is pulled and sent.
C21_OneSendOutstanding ==
    \A r \in Relays :
        rel[r].stream => Cardinality(UnackedSends(r)) <= 1


\* C22: once the peer of a streaming session is gone the session issues at
\* most one further pull of the upstream generator, however many fragments
\* the generator still has.
C22_BoundedWaste ==
    \A r \in Relays :
        rel[r].stream => rel[r].pullsGone <= 1


\* C23: a streaming POST session awaits llmService.chat only after it wrote
\* the preamble, and when that call fails the session writes one in-band
\* error and the stream end, and no out-of-band reply.
C23_CommitBeforeAcquire ==
    [][\A r \in Relays :
          (IsPost(r) /\ rel[r].stream /\ rel[r].pc = "acquire") =>
              /\ Types(EventsOf(Wire(r), r)) = <<"head">>
              /\ headersSent[rel[r].conn]
              /\ rel'[r].pc = "done" =>
                    /\ Types(EventsOf(wire'[rel[r].conn], r)) = <<"head", "error", "end">>
                    /\ Len(wire'[rel[r].conn]) = Len(Wire(r)) + 2]_vars

\* Acquisition failed in a committed stream: the session produced nothing
\* and ended in-band.
C23_Witness ==
    \E r \in Relays :
        /\ IsPost(r) /\ rel[r].stream /\ rel[r].gen = "failed"
        /\ rel[r].produced = <<>>
        /\ Types(Wire(r)) = <<"head", "error", "end">>


\* C24: a streaming session has written the done sentinel exactly when its
\* generator completed normally; the sentinel is then written once, after
\* every content event of the session, and no content, done or error event
\* of the session follows it.
C24_DoneIffCompleted ==
    \A r \in Relays :
        rel[r].stream =>
            LET evs == OfType(Wire(r), r, {"content", "done", "error"})
                n == Len(evs)
            IN /\ (\E i \in 1..n : evs[i].t = "done") <=> rel[r].gen = "completed"
               /\ rel[r].gen = "completed" =>
                     /\ n = Len(NonEmptyFragments(rel[r].produced)) + 1
                     /\ evs[n].t = "done"
                     /\ \A i \in 1..(n - 1) : evs[i].t = "content"

\* A socket relay sent two chunk frames and then the done frame.
C24_Witness ==
    \E r \in Relays :
        /\ ~IsPost(r) /\ rel[r].stream /\ rel[r].gen = "completed"
        /\ Types(EventsOf(Wire(r), r)) = <<"content", "content", "done">>


\* What the sink of session r carries from the first to the last event the
\* session wrote.  A frame on the socket carries no session id, so this is
\* what the peer receives as the session's events.
SinkSpan(r) ==
    LET w == Wire(r)
        own == { i \in 1..Len(w) : w[i].r = r }
    IN IF own = {} THEN <<>>
       ELSE LET lo == CHOOSE i \in own : \A j \in own : i <= j
                hi == CHOOSE i \in own : \A j \in own : j <= i
            IN SubSeq(w, lo, hi)

\* C25: under every interleaving of the sessions, what the sink of a
\* session carries while the session writes is what the session would have
\* written alone: its own events only, the content events being the
\* non-empty fragments of its own generator in order.
C25_Isolation ==
    \A r \in Relays :
        (rel[r].stream /\ rel[r].valid) =>
            /\ SinkSpan(r) = EventsOf(Wire(r), r)
            /\ Texts(SelectSeq(SinkSpan(r), LAMBDA e : e.t = "content"))
                  = NonEmptyFragments(rel[r].produced)


\* C26: a session calls llmService.chat at most once, and a step that takes
\* a chunk from a session's generator is a step of that session only: the
\* session had acquired the generator, every frame the step writes is the
\* session's, and no other session changes.
C26_GeneratorOwned ==
    [][\A r \in Relays :
          /\ rel[r].acquired <= 1
          /\ rel'[r].acquired <= 1
          /\ rel'[r].produced # rel[r].produced =>
                /\ rel[r].acquired = 1 /\ rel[r].gen = "live"
                /\ Len(rel'[r].produced) = Len(rel[r].produced) + 1
                /\ \A q \in Relays \ {r} : rel'[q] = rel[q]
                /\ \A i \in (Len(Wire(r)) + 1)..Len(wire'[rel[r].conn]) :
                      wire'[rel[r].conn][i].r = r]_vars

\* Two sessions hold a live generator each at the same time and each has
\* taken a chunk from its own.
C26_Witness ==
    \E r, q \in Relays :
        /\ r # q
        /\ rel[r].gen = "live" /\ rel[q].gen = "live"
        /\ rel[r].acquired = 1 /\ rel[q].acquired = 1
        /\ Len(rel[r].produced) = 1 /\ Len(rel[q].produced) = 1


\* C27: on a socket a relay that is over (done frame or error frame) leaves
\* the connection open: nothing closes the socket, the message handler
\* still takes a further message, and every relay on the connection is
\* started with the userId of the token the connection was verified with.
C27_SocketOutlivesRelay ==
    \A r \in Relays :
        (~IsPost(r) /\ rel[r].pc = "done") =>
            LET c == rel[r].conn
            IN /\ cpc[c] = "open"
               /\ \A i \in 1..Len(wire[c]) : wire[c][i].t # "close"
               /\ Len(rel) < MaxConc => ENABLED WsMessageConc(c)
               /\ \A q \in Relays :
                     (rel[q].conn = c /\ rel[q].acquired > 0) =>
                         rel[q].genUser = cred[c].userId

\* The first relay of a socket ended with its done frame and a second one
\* has been started on the same connection.
C27_Witness ==
    /\ Len(rel) = 2
    /\ rel[1].pc = "done" /\ rel[1].gen = "completed"
    /\ rel[2].conn = rel[1].conn /\ rel[2].acquired = 1
    /\ rel[2].genUser = rel[1].genUser
    /\ cpc[rel[1].conn] = "open"


\* C28: a socket message that is not JSON or has no messages field is
\* answered with exactly one error frame: the session writes nothing else,
\* never calls llmService.chat and is over at once.
C28_BadSocketMessage ==
    \A r \in Relays :
        (~IsPost(r) /\ (~rel[r].body.json \/ ~rel[r].body.hasMessages)) =>
            /\ Types(EventsOf(Wire(r), r)) = <<"error">>
            /\ rel[r].acquired = 0
            /\ rel[r].gen = "none"
            /\ rel[r].produced = <<>>
            /\ rel[r].pc = "done"

\* A message that does not parse was answered with the error frame of the
\* catch block.
C28_Witness ==
    \E r \in Relays :
        /\ ~IsPost(r) /\ ~rel[r].body.json
        /\ Wire(r) = << Ev("error", r, <<>>, 0, "parse", FALSE) >>


\* C29: on a socket the userId handed to llmService.chat is the userId of
\* the verified token whatever the inbound message carries: it is never the
\* userId a payload names, and two relays of one connection get the same.
C29_IdentityFromToken ==
    \A r \in Relays :
        (~IsPost(r) /\ rel[r].acquired > 0) =>
            /\ rel[r].genUser = cred[rel[r].conn].userId
            /\ rel[r].body.claimedUser # NoUser =>
                  rel[r].genUser # rel[r].body.claimedUser
            /\ \A q \in Relays :
                  (rel[q].conn = rel[r].conn /\ rel[q].acquired > 0) =>
                      rel[q].genUser = rel[r].genUser

\* A message that names another user was relayed under the token's userId.
C29_Witness ==
    \E r \in Relays :
        /\ ~IsPost(r) /\ rel[r].acquired = 1
        /\ rel[r].body.claimedUser = "u2"
        /\ cred[rel[r].conn].userId = "u1" /\ rel[r].genUser = "u1"


\* C30: a call of register with an email that is already stored ends with
\* EMAIL_ALREADY_EXISTS after findByEmail and stores nothing: no user and
\* no persona of that call exists, and the stored user of that email stays.
C30_RegisterExistingEmail ==
    \A k \in 1..Len(reg) :
        reg[k].existed =>
            /\ reg[k].pc \in {"find", "done"}
            /\ reg[k].pc = "done" => reg[k].outcome = "EMAIL_ALREADY_EXISTS"
            /\ \A u \in users : u.id # k
            /\ k \notin personas
            /\ FindByEmail(users, reg[k].email) # {}

\* The seeded email was registered again and the call was refused; the
\* seeded user and its persona are all that is stored.
C30_Witness ==
    \E k \in 1..Len(reg) :
        /\ reg[k].existed /\ reg[k].email = "a@x"
        /\ reg[k].pc = "done" /\ reg[k].outcome = "EMAIL_ALREADY_EXISTS"
        /\ users = {[id |-> 0, email |-> "a@x"]}
        /\ personas = {0}


\* The calls of register that stored a user with email e.
Creators(e) ==
    { k \in 1..Len(reg) : [id |-> k, email |-> e] \in users }

====
